---- MODULE Spec2Model ----
(***************************************************************************)
(* Model of bleep/characteristic.py: BLEAttribute, BLEDescriptor and       *)
(* BLECharacteristic, with the device (handle registry, read/write) and    *)
(* the requester (descriptor discovery) as stub collaborators whose        *)
(* results are inputs of the actions.  Python 3 semantics.                 *)
(*                                                                         *)
(* Every method is an operator named after it that computes the method's   *)
(* effect; an action applies the operator to the state.  The variables     *)
(* calls / invoked / ret hold what the last operation did: the calls it    *)
(* made on the collaborators, the callbacks it invoked, what it returned   *)
(* or raised.  inp holds the arguments and the stub results it was given.  *)
(***************************************************************************)
EXTENDS Integers, Sequences, FiniteSets, TLC

VARIABLES
    attrs,    \* the BLEAttribute objects made so far; an object's id is its index
    regLog,   \* every device.register_handle(handle, obj) call made so far
    calls,    \* the calls the last operation made on the device / requester
    invoked,  \* the callback(data) invocations of the last operation
    ret,      \* the last operation: its name, receiver, outcome ("ok" or the
              \* exception raised) and the value returned
    inp       \* the last operation's arguments and the results its stubs gave

vars == <<attrs, regLog, calls, invoked, ret, inp>>

(* ------------------------------ bounds --------------------------------- *)
\* objects constructed in one behaviour of SpecDiscovery
MaxAttrs == 2
\* callback registrations in one behaviour of Spec
MaxRegs == 2
\* the device's handles are 1..MaxHandle
MaxHandle == 3

(* ------------------------- UUIDs and their text ------------------------ *)
\* A UUID is its 32 hex digits (128 bits), most significant first.
HexChars == <<"0","1","2","3","4","5","6","7","8","9","a","b","c","d","e","f">>
UpperHexChars == <<"0","1","2","3","4","5","6","7","8","9","A","B","C","D","E","F">>

\* 00000000-0000-1000-8000-00805F9B34FB
BaseUuid == <<0,0,0,0, 0,0,0,0, 0,0,0,0, 1,0,0,0, 8,0,0,0, 0,0,8,0,5,15,9,11,3,4,15,11>>

WithSegment(a, b, c, d) == [i \in 1..32 |->
    IF i = 5 THEN a ELSE IF i = 6 THEN b ELSE IF i = 7 THEN c ELSE IF i = 8 THEN d
    ELSE BaseUuid[i]]

UuidA == WithSegment(2, 9, 0, 2)
UuidB == WithSegment(2, 9, 0, 1)

\* str(uuid): lower-case hex in groups 8-4-4-4-12
UuidStr(u) == [i \in 1..36 |->
    IF i \in {9, 14, 19, 24} THEN "-"
    ELSE HexChars[u[i - (IF i > 24 THEN 4 ELSE IF i > 19 THEN 3 ELSE IF i > 14 THEN 2
                         ELSE IF i > 9 THEN 1 ELSE 0)] + 1]]

\* Python slice s[lo:hi] of a string
Slice(s, lo, hi) == SubSeq(s, lo + 1, IF hi > Len(s) THEN Len(s) ELSE hi)

IsHexChar(c) == \E n \in 1..16 : HexChars[n] = c \/ UpperHexChars[n] = c
HexVal(c) == (CHOOSE n \in 1..16 : HexChars[n] = c \/ UpperHexChars[n] = c) - 1

\* A text is a sequence of one-character strings over ASCII.
\* F applied to the value of v, v being computed once (a local variable)
Once(v, F(_)) == CHOOSE r \in {F(x) : x \in {v}} : TRUE

\* str.replace(pat, ''): every occurrence of pat is dropped.  Neither 'urn:'
\* nor 'uuid:' can overlap itself, so the occurrences found from left to right
\* are all the places where pat starts.
StartsWith(s, i, pat) ==
    i >= 1 /\ i + Len(pat) - 1 <= Len(s) /\ SubSeq(s, i, i + Len(pat) - 1) = pat
Remove(s, pat) ==
    Once({i \in 1..Len(s) : \E j \in (i - Len(pat) + 1)..i : StartsWith(s, j, pat)},
         LAMBDA dropped :
    Once(SelectSeq([i \in 1..Len(s) |-> <<i, s[i]>>], LAMBDA p : p[1] \notin dropped),
         LAMBDA kept : [k \in 1..Len(kept) |-> kept[k][2]]))

\* str.strip(chars): the characters of chars are dropped at both ends
Strip(s, chars) ==
    Once({i \in 1..Len(s) : s[i] \notin chars}, LAMBDA keep :
         IF keep = {} THEN <<>>
         ELSE SubSeq(s, CHOOSE i \in keep : \A j \in keep : i <= j,
                        CHOOSE i \in keep : \A j \in keep : j <= i))

\* the ASCII blanks: space, \t, \n, \r, \f and the vertical tab chr(11), which
\* has no escape and is written as the character itself
Whitespace == {" ", "\t", "\n", "\r", "\f", ""}

\* int(text, 16) of a text without "-": blanks around it, a "+" sign, a 0x or
\* 0X prefix and single "_" between digits (one also right after the prefix)
\* are accepted; the digits are returned, ok = FALSE stands for ValueError
IntBase16(text) ==
    Once(Strip(text, Whitespace), LAMBDA bare :
    Once(IF Len(bare) > 0 /\ bare[1] = "+" THEN Tail(bare) ELSE bare, LAMBDA unsigned :
    Once(Len(unsigned) >= 2 /\ unsigned[1] = "0" /\ unsigned[2] \in {"x", "X"},
         LAMBDA prefixed :
    Once(IF prefixed THEN SubSeq(unsigned, 3, Len(unsigned)) ELSE unsigned, LAMBDA after :
    Once(IF prefixed /\ Len(after) > 0 /\ after[1] = "_" THEN Tail(after) ELSE after,
         LAMBDA body :
        [ok |-> /\ Len(body) > 0
                /\ \A i \in 1..Len(body) : IsHexChar(body[i]) \/ body[i] = "_"
                /\ body[1] # "_" /\ body[Len(body)] # "_"
                /\ \A i \in 1..(Len(body) - 1) : ~(body[i] = "_" /\ body[i + 1] = "_"),
         digits |-> SelectSeq(body, IsHexChar)])))))

\* UUID(text): 'urn:' and 'uuid:' are dropped, then braces at the ends, then
\* the hyphens; what is left must be 32 characters long and is converted with
\* int(hex, 16); else ValueError
UuidParse(text) ==
    Once(Remove(text, <<"u", "r", "n", ":">>), LAMBDA no_urn :
    Once(Remove(no_urn, <<"u", "u", "i", "d", ":">>), LAMBDA no_uuid :
    Once(SelectSeq(Strip(no_uuid, {"{", "}"}), LAMBDA c : c # "-"), LAMBDA hex :
    Once(IntBase16(hex), LAMBDA int :
        IF Len(hex) = 32 /\ int.ok
        THEN [ok |-> TRUE,
              uuid |-> [i \in 1..32 |->
                           IF i <= 32 - Len(int.digits) THEN 0
                           ELSE HexVal(int.digits[i - (32 - Len(int.digits))])]]
        ELSE [ok |-> FALSE, uuid |-> BaseUuid]))))

\* util.is_short_uuid: the UUID is 0000XXXX-0000-1000-8000-00805F9B34FB
is_short_uuid(u) == \A i \in (1..32) \ (5..8) : u[i] = BaseUuid[i]

\* shortest_uuid taking the wrong four characters of the text
shortest_uuid_off_by_one(self) ==
    IF is_short_uuid(self.uuid) THEN Slice(UuidStr(self.uuid), 3, 7)
    ELSE UuidStr(self.uuid)

\* BLEAttribute.shortest_uuid
shortest_uuid(self) ==
    IF is_short_uuid(self.uuid) THEN Slice(UuidStr(self.uuid), 4, 8)
    ELSE UuidStr(self.uuid)

(* ---------------------------- collaborators ---------------------------- *)
\* One call on the device or the requester, as a stub records it.
Call(fn, handle, last, obj, data, response) ==
    [fn |-> fn, handle |-> handle, last |-> last, obj |-> obj, data |-> data,
     response |-> response]
RegisterCall(h, o) == Call("register_handle", h, 0, o, <<>>, FALSE)
ReadCall(h) == Call("read_handle", h, 0, 0, <<>>, FALSE)
WriteCall(h, d, r) == Call("write_handle", h, 0, 0, d, r)
DiscoverCall(s, e) == Call("discover_descriptors", s, e, 0, <<>>, FALSE)

\* Errors.  pygattlib raises RuntimeError for every error the device responds
\* with, "not found" included (comment at characteristic.py:179); IOError
\* stands for a transport failure of another class.
IsRuntimeError(e) == e \in {"NotFound", "DeviceError"}
TransportErrors == {"NotFound", "DeviceError", "IOError"}

Payloads == {<<171>>, <<1, 2>>}
Callbacks == {"f", "g", "bad"}
\* a callback that raises when called
Raises(cb) == cb = "bad"

Handles == 1..MaxHandle
Uuids == {UuidA, UuidB}

NoTable == [kind |-> "none", dict |-> <<>>, desc |-> 0]
Ret(op, obj, outcome) ==
    [op |-> op, obj |-> obj, outcome |-> outcome, bytes |-> <<>>, text |-> <<>>,
     table |-> NoTable]

(* ----------------------------- BLEAttribute ---------------------------- *)
\* BLEAttribute.__init__ without the register_handle call
BLEAttribute_init_unregistered(id, handle, uuid, reg) ==
    [obj |-> [value_handle |-> handle, uuid |-> uuid,
              notification_callbacks |-> <<>>, indication_callbacks |-> <<>>,
              has_notification_callbacks |-> TRUE, ready |-> TRUE],
     calls |-> <<>>,
     outcome |-> "ok"]

\* BLEAttribute.__init__ on a fresh object `id`; reg is what register_handle
\* does ("ok" or the error it raises).  The callback lists are only created
\* after register_handle has returned: has_notification_callbacks says that
\* line 55 has run, ready that line 56 has, which ends the constructor.
BLEAttribute_init(id, handle, uuid, reg) ==
    [obj |-> [value_handle |-> handle, uuid |-> uuid,
              notification_callbacks |-> <<>>, indication_callbacks |-> <<>>,
              has_notification_callbacks |-> (reg = "ok"),
              ready |-> (reg = "ok")],
     calls |-> <<RegisterCall(handle, id)>>,
     outcome |-> reg]

\* BLEDescriptor.__init__
BLEDescriptor_init(id, handle, uuid, reg) == BLEAttribute_init(id, handle, uuid, reg)

\* BLECharacteristic.__init__: BLECharacteristic has no base class but object,
\* so super(BLECharacteristic, self).__init__(self, device, value_handle, uuid)
\* at line 153 is object.__init__ with four arguments and raises TypeError
\* before any field is set, any call on the device is made or discovery runs.
BLECharacteristic_init(id, handle, value_handle, end_handle, uuid, properties) ==
    [calls |-> <<>>, made |-> <<>>, outcome |-> "TypeError", table |-> NoTable]

(* ------------------------- descriptor discovery ------------------------ *)
\* the dict `descriptors`: its items in insertion order
DictHas(d, k) == \E i \in 1..Len(d) : d[i].key = k
DictGet(d, k) == d[CHOOSE i \in 1..Len(d) : d[i].key = k].val
DictAppend(d, k, x) ==
    IF DictHas(d, k)
    THEN [i \in 1..Len(d) |-> IF d[i].key = k THEN [d[i] EXCEPT !.val = Append(@, x)]
                                             ELSE d[i]]
    ELSE Append(d, [key |-> k, val |-> <<x>>])

\* The body of the for loop of _discover_descriptors from item i on.  acc is
\* the loop's state: the objects made, the calls made, the dict, the local
\* `desc` (0 while unbound) and the exception leaving the loop, if any.
RECURSIVE DiscoverLoop(_, _, _, _)
DiscoverLoop(items, i, base, acc) ==
    IF i > Len(items) THEN acc
    ELSE Once(UuidParse(items[i].uuid), LAMBDA parsed :
             IF ~parsed.ok THEN [acc EXCEPT !.exc = "ValueError"]
             ELSE LET id == base + Len(acc.made) + 1
                      d == BLEDescriptor_init(id, items[i].handle, parsed.uuid,
                                              items[i].reg)
                      acc1 == [acc EXCEPT !.made = Append(@, d.obj),
                                          !.calls = @ \o d.calls]
                  IN  IF d.outcome = "ok"
                      THEN DiscoverLoop(items, i + 1, base,
                               [acc1 EXCEPT !.desc = id,
                                            !.descriptors = DictAppend(@, parsed.uuid, id)])
                      ELSE IF IsRuntimeError(d.outcome)
                           THEN DiscoverLoop(items, i + 1, base, acc1)
                           ELSE [acc1 EXCEPT !.exc = d.outcome])

\* BLECharacteristic._discover_descriptors on a receiver with value_handle
\* and end_handle.  response is what requester.discover_descriptors does: it
\* yields response.items and then ends ("end") or raises response.tail.
\* base is the number of objects that exist already.
discover_descriptors(self, base, response) ==
    IF self.value_handle + 1 > self.end_handle
    THEN [calls |-> <<>>, made |-> <<>>, outcome |-> "ok",
          table |-> [kind |-> "dict", dict |-> <<>>, desc |-> 0]]
    ELSE Once(DiscoverLoop(response.items, 1, base,
                  [made |-> <<>>,
                   calls |-> <<DiscoverCall(self.value_handle + 1, self.end_handle)>>,
                   descriptors |-> <<>>, desc |-> 0, exc |-> "none"]),
              LAMBDA loop :
         LET outcome == IF loop.exc # "none" THEN loop.exc
                        ELSE IF response.tail # "end" THEN response.tail
                        ELSE IF loop.desc = 0 THEN "UnboundLocalError"
                        ELSE "ok"
         IN  [calls |-> loop.calls, made |-> loop.made, outcome |-> outcome,
              table |-> IF outcome = "ok"
                        THEN [kind |-> "desc", dict |-> <<>>, desc |-> loop.desc]
                        ELSE NoTable])

(* ------------------------------ UUIDAccessor --------------------------- *)
\* util.UUIDAccessor over the mapping from UUID to a sequence of attributes
\* it was constructed with (table.kind = "dict"); the list view returns the
\* sequence bound to the key, empty for an absent key
get_all(table, uuid) ==
    IF DictHas(table.dict, uuid)
    THEN [outcome |-> "ok", value |-> DictGet(table.dict, uuid)]
    ELSE [outcome |-> "ok", value |-> <<>>]

\* the unique view returning the first attribute of the key without looking
\* for others
get_unique_first(table, uuid) ==
    IF ~DictHas(table.dict, uuid) \/ Len(DictGet(table.dict, uuid)) = 0
    THEN [outcome |-> "NotFound", value |-> 0]
    ELSE [outcome |-> "ok", value |-> DictGet(table.dict, uuid)[1]]

\* the unique view over the same mapping
get_unique(table, uuid) ==
    IF ~DictHas(table.dict, uuid) \/ Len(DictGet(table.dict, uuid)) = 0
    THEN [outcome |-> "NotFound", value |-> 0]
    ELSE IF Len(DictGet(table.dict, uuid)) > 1
         THEN [outcome |-> "AmbiguousKey", value |-> 0]
    ELSE [outcome |-> "ok", value |-> DictGet(table.dict, uuid)[1]]

TotalRegs == LET RECURSIVE Sum(_)
                 Sum(i) == IF i = 0 THEN 0
                           ELSE Len(attrs[i].notification_callbacks)
                                + Len(attrs[i].indication_callbacks) + Sum(i - 1)
             IN Sum(Len(attrs))

Ready == {a \in 1..Len(attrs) : attrs[a].ready}

\* nothing constructed yet
Init ==
    /\ attrs = <<>>
    /\ regLog = <<>>
    /\ calls = <<>>
    /\ invoked = <<>>
    /\ ret = Ret("none", 0, "ok")
    /\ inp = <<>>

\* after BLEDescriptor(device, 3, UuidA) and BLEDescriptor(device, 5, UuidB)
InitAttrs ==
    /\ attrs = <<BLEDescriptor_init(1, 3, UuidA, "ok").obj,
                 BLEDescriptor_init(2, 5, UuidB, "ok").obj>>
    /\ regLog = <<RegisterCall(3, 1), RegisterCall(5, 2)>>
    /\ calls = <<>>
    /\ invoked = <<>>
    /\ ret = Ret("none", 0, "ok")
    /\ inp = <<>>

NewDescriptor(handle, uuid, reg) ==
    /\ Len(attrs) < MaxAttrs
    /\ LET id == Len(attrs) + 1
           r == BLEDescriptor_init(id, handle, uuid, reg)
       IN  /\ attrs' = Append(attrs, r.obj)
           /\ regLog' = regLog \o r.calls
           /\ calls' = r.calls
           /\ invoked' = <<>>
           /\ ret' = Ret("BLEDescriptor", id, r.outcome)
           /\ inp' = [handle |-> handle, uuid |-> uuid, reg |-> reg]

(* read / write / notify / indicate / dispatch *)
\* BLEAttribute.read; result is what device.read_handle does: the record
\* [outcome, bytes] with outcome "ok" or the error raised.
read(self, result) ==
    [calls |-> <<ReadCall(self.value_handle)>>,
     outcome |-> result.outcome,
     bytes |-> IF result.outcome = "ok" THEN result.bytes ELSE <<>>,
     self |-> self]

\* write that tries once more when the device fails
write_with_retry(self, data, response, result) ==
    [calls |-> IF result.outcome = "ok"
               THEN <<WriteCall(self.value_handle, data, response)>>
               ELSE <<WriteCall(self.value_handle, data, response),
                      WriteCall(self.value_handle, data, response)>>,
     outcome |-> result.outcome,
     bytes |-> IF result.outcome = "ok" THEN result.bytes ELSE <<>>,
     self |-> self]

\* BLEAttribute.write; result is what device.write_handle does.
write(self, data, response, result) ==
    [calls |-> <<WriteCall(self.value_handle, data, response)>>,
     outcome |-> result.outcome,
     bytes |-> IF result.outcome = "ok" THEN result.bytes ELSE <<>>,
     self |-> self]

\* BLEAttribute.notify
notify(self, function) ==
    [self EXCEPT !.notification_callbacks = Append(@, function)]

\* indicate that also rebinds value_handle
indicate_rebinding_handle(self, function) ==
    [self EXCEPT !.indication_callbacks = Append(@, function), !.value_handle = 0]

\* BLEAttribute.indicate
indicate(self, function) ==
    [self EXCEPT !.indication_callbacks = Append(@, function)]

\* for callback in callbacks: callback(data) -- from position i on.  A
\* callback that raises ends the loop: the exception leaves the method.
RECURSIVE ForEachCallback(_, _, _)
ForEachCallback(callbacks, i, data) ==
    IF i > Len(callbacks) THEN [invoked |-> <<>>, outcome |-> "ok"]
    ELSE IF Raises(callbacks[i])
         THEN [invoked |-> << <<callbacks[i], data>> >>, outcome |-> "CallbackError"]
         ELSE LET rest == ForEachCallback(callbacks, i + 1, data)
              IN  [invoked |-> << <<callbacks[i], data>> >> \o rest.invoked,
                   outcome |-> rest.outcome]

\* _on_notification going through the indication callbacks
on_notification_other_list(self, data) ==
    IF ~self.ready THEN [invoked |-> <<>>, outcome |-> "AttributeError"]
    ELSE ForEachCallback(self.indication_callbacks, 1, data)

\* BLEAttribute._on_notification; on an object whose __init__ has not run
\* line 55 the list does not exist and reading it raises AttributeError
on_notification(self, data) ==
    IF ~self.has_notification_callbacks THEN [invoked |-> <<>>, outcome |-> "AttributeError"]
    ELSE ForEachCallback(self.notification_callbacks, 1, data)

\* BLEAttribute._on_indication; its list exists once line 56 has run
on_indication(self, data) ==
    IF ~self.ready THEN [invoked |-> <<>>, outcome |-> "AttributeError"]
    ELSE ForEachCallback(self.indication_callbacks, 1, data)

ReadResults == [outcome : {"ok"}, bytes : Payloads]
                 \cup [outcome : {"DeviceError", "IOError"}, bytes : {<<>>}]
WriteResults == [outcome : {"ok", "DeviceError", "IOError"}, bytes : {<<>>}]

Read(a, result) ==
    /\ LET r == read(attrs[a], result)
       IN  /\ attrs' = [attrs EXCEPT ![a] = r.self]
           /\ calls' = r.calls
           /\ ret' = [Ret("read", a, r.outcome) EXCEPT !.bytes = r.bytes]
    /\ invoked' = <<>>
    /\ inp' = [result |-> result]
    /\ UNCHANGED regLog

Write(a, data, response, result) ==
    /\ LET r == write(attrs[a], data, response, result)
       IN  /\ attrs' = [attrs EXCEPT ![a] = r.self]
           /\ calls' = r.calls
           /\ ret' = [Ret("write", a, r.outcome) EXCEPT !.bytes = r.bytes]
    /\ invoked' = <<>>
    /\ inp' = [data |-> data, response |-> response, result |-> result]
    /\ UNCHANGED regLog

Notify(a, function) ==
    /\ TotalRegs < MaxRegs
    /\ attrs' = [attrs EXCEPT ![a] = notify(attrs[a], function)]
    /\ calls' = <<>>
    /\ invoked' = <<>>
    /\ ret' = Ret("notify", a, "ok")
    /\ inp' = [function |-> function]
    /\ UNCHANGED regLog

Indicate(a, function) ==
    /\ TotalRegs < MaxRegs
    /\ attrs' = [attrs EXCEPT ![a] = indicate(attrs[a], function)]
    /\ calls' = <<>>
    /\ invoked' = <<>>
    /\ ret' = Ret("indicate", a, "ok")
    /\ inp' = [function |-> function]
    /\ UNCHANGED regLog

OnNotification(a, data) ==
    /\ LET r == on_notification(attrs[a], data)
       IN  /\ invoked' = r.invoked
           /\ ret' = Ret("on_notification", a, r.outcome)
    /\ calls' = <<>>
    /\ inp' = [data |-> data]
    /\ UNCHANGED <<attrs, regLog>>

OnIndication(a, data) ==
    /\ LET r == on_indication(attrs[a], data)
       IN  /\ invoked' = r.invoked
           /\ ret' = Ret("on_indication", a, r.outcome)
    /\ calls' = <<>>
    /\ inp' = [data |-> data]
    /\ UNCHANGED <<attrs, regLog>>

ShortestUuid(a) ==
    /\ ret' = [Ret("shortest_uuid", a, "ok") EXCEPT !.text = shortest_uuid(attrs[a])]
    /\ calls' = <<>>
    /\ invoked' = <<>>
    /\ inp' = <<>>
    /\ UNCHANGED <<attrs, regLog>>

NewCharacteristic(handle, value_handle, end_handle, uuid, properties) ==
    /\ LET id == Len(attrs) + 1
           r == BLECharacteristic_init(id, handle, value_handle, end_handle, uuid,
                                       properties)
       IN  /\ attrs' = attrs \o r.made
           /\ regLog' = regLog \o SelectSeq(r.calls, LAMBDA c : c.fn = "register_handle")
           /\ calls' = r.calls
           /\ ret' = [Ret("BLECharacteristic", id, r.outcome) EXCEPT !.table = r.table]
    /\ invoked' = <<>>
    /\ inp' = [handle |-> handle, value_handle |-> value_handle,
               end_handle |-> end_handle, uuid |-> uuid]

DiscoverDescriptors(value_handle, end_handle, response) ==
    /\ Len(attrs) + Len(response.items) <= MaxAttrs
    /\ LET r == discover_descriptors([value_handle |-> value_handle,
                                      end_handle |-> end_handle],
                                     Len(attrs), response)
       IN  /\ attrs' = attrs \o r.made
           /\ regLog' = regLog \o SelectSeq(r.calls, LAMBDA c : c.fn = "register_handle")
           /\ calls' = r.calls
           /\ ret' = [Ret("discover_descriptors", 0, r.outcome) EXCEPT !.table = r.table]
    /\ invoked' = <<>>
    /\ inp' = [value_handle |-> value_handle, end_handle |-> end_handle,
               items |-> response.items, tail |-> response.tail]

(* inputs *)
BadText == <<"n", "o">>
\* a UUID written as a URN in braces, which UUID(text) accepts as well as the
\* plain form
UrnText(u) == <<"u", "r", "n", ":", "u", "u", "i", "d", ":", "{">> \o UuidStr(u) \o <<"}">>
UuidTexts == {UuidStr(UuidA), UrnText(UuidB)}
\* what the requester yields for one attribute: its uuid as text, and what
\* device.register_handle does when the descriptor registers
ItemChoices ==
    [uuid : UuidTexts, reg : {"ok"}]
        \cup [uuid : {UuidStr(UuidA)}, reg : {"NotFound", "DeviceError"}]
        \cup [uuid : {BadText}, reg : {"ok"}]
\* the ordered results for the range lo..hi, at most n of them: the
\* attributes at lo, lo + 1, ...; then the end, or an error
Responses(lo, hi, n) ==
    [items : UNION {{[i \in 1..k |-> [handle |-> lo + i - 1, uuid |-> c[i].uuid,
                                       reg |-> c[i].reg]] :
                        c \in [1..k -> ItemChoices]} :
                    k \in {j \in 0..n : j <= hi - lo + 1}},
     tail : IF lo > hi THEN {"end"} ELSE {"end", "NotFound", "DeviceError"}]

(* the attribute operations on two constructed descriptors *)
Next ==
    \/ \E a \in Ready, result \in ReadResults : Read(a, result)
    \/ \E a \in Ready, data \in Payloads, response \in BOOLEAN, result \in WriteResults :
          Write(a, data, response, result)
    \/ \E a \in Ready, f \in Callbacks : Notify(a, f)
    \/ \E a \in Ready, f \in Callbacks : Indicate(a, f)
    \/ \E a \in Ready, data \in Payloads : OnNotification(a, data)
    \/ \E a \in Ready, data \in Payloads : OnIndication(a, data)

Spec == InitAttrs /\ [][Next]_vars

(* construction and descriptor discovery *)
NextDiscovery ==
    \/ \E h \in Handles, u \in Uuids, reg \in {"ok", "DeviceError"} :
          NewDescriptor(h, u, reg)
    \/ \E v \in Handles, e \in Handles, u \in Uuids :
          NewCharacteristic(v - 1, v, e, u, 0)
    \/ \E v \in Handles, e \in Handles :
          \E response \in Responses(v + 1, e, MaxAttrs - Len(attrs)) :
              DiscoverDescriptors(v, e, response)

SpecDiscovery == Init /\ [][NextDiscovery]_vars

(* construction alone *)
NextConstruction ==
    \/ \E h \in Handles, u \in Uuids, reg \in {"ok", "DeviceError"} :
          NewDescriptor(h, u, reg)
    \/ \E v \in Handles, e \in Handles, u \in Uuids :
          NewCharacteristic(v - 1, v, e, u, 0)

SpecConstruction == Init /\ [][NextConstruction]_vars

(* the attribute operations and the construction of a Characteristic *)
NextLifecycle ==
    \/ Next
    \/ \E v \in Handles, e \in Handles, u \in Uuids :
          NewCharacteristic(v - 1, v, e, u, 0)

SpecLifecycle == InitAttrs /\ [][NextLifecycle]_vars

(* the two views of a UUIDAccessor over one mapping *)
\* UUIDAccessor is a class of util.py: this part follows its description, an
\* accessor constructed over a mapping from UUID to a sequence of attributes.
\* It is not the state of a BLECharacteristic: BLECharacteristic.__init__
\* never gets to lines 161-162 (line 153), and _discover_descriptors hands
\* over the mapping only for an empty range (line 183).
\* the mapping the loop of _discover_descriptors builds (lines 173-177) for
\* descriptors with the uuids us, in this order: object i has uuid us[i]
RECURSIVE BuildDict(_, _)
BuildDict(us, n) ==
    IF n = 0 THEN <<>> ELSE DictAppend(BuildDict(us, n - 1), us[n], n)
UuidSeqs == UNION {[1..n -> Uuids] : n \in 0..MaxHandle}
\* the keys looked up: the uuids descriptors have, and one that none has
AccessorKeys == Uuids \cup {BaseUuid}

\* descriptors 1..Len(us), constructed, and UUIDAccessor(mapping) over them
InitAccessor ==
    \E us \in UuidSeqs :
        /\ attrs = [i \in 1..Len(us) |-> BLEDescriptor_init(i, i, us[i], "ok").obj]
        /\ regLog = [i \in 1..Len(us) |-> RegisterCall(i, i)]
        /\ calls = <<>>
        /\ invoked = <<>>
        /\ ret = [Ret("UUIDAccessor", 0, "ok") EXCEPT
                      !.table = [kind |-> "dict", dict |-> BuildDict(us, Len(us)),
                                 desc |-> 0]]
        /\ inp = <<>>

GetAll(uuid) ==
    /\ LET r == get_all(ret.table, uuid)
       IN  /\ ret' = [ret EXCEPT !.op = "get_all", !.outcome = r.outcome, !.obj = 0]
           /\ inp' = [uuid |-> uuid, value |-> r.value]
    /\ calls' = <<>>
    /\ invoked' = <<>>
    /\ UNCHANGED <<attrs, regLog>>

GetUnique(uuid) ==
    /\ LET r == get_unique(ret.table, uuid)
       IN  /\ ret' = [ret EXCEPT !.op = "get_unique", !.outcome = r.outcome,
                                 !.obj = r.value]
           /\ inp' = [uuid |-> uuid]
    /\ calls' = <<>>
    /\ invoked' = <<>>
    /\ UNCHANGED <<attrs, regLog>>

NextAccessor ==
    \/ \E u \in AccessorKeys : GetAll(u)
    \/ \E u \in AccessorKeys : GetUnique(u)

SpecAccessor == InitAccessor /\ [][NextAccessor]_vars

(* shortest_uuid on one descriptor, over many UUIDs *)
SegmentDigits == {0, 9, 15}
\* one digit in each group outside the 16-bit segment; 0 is "none"
DeviatingDigits == {0, 1, 4, 9, 13, 17, 21, 32}
Deviate(u, p) == [i \in 1..32 |-> IF i = p THEN (u[i] + 1) % 16 ELSE u[i]]
UuidInputs ==
    {Deviate(WithSegment(a, b, c, d), p) :
        a \in SegmentDigits, b \in SegmentDigits, c \in SegmentDigits,
        d \in SegmentDigits, p \in DeviatingDigits}

\* after BLEDescriptor(device, 3, u)
InitUuid ==
    /\ \E u \in UuidInputs : attrs = <<BLEDescriptor_init(1, 3, u, "ok").obj>>
    /\ regLog = <<RegisterCall(3, 1)>>
    /\ calls = <<>>
    /\ invoked = <<>>
    /\ ret = Ret("none", 0, "ok")
    /\ inp = <<>>

NextUuid == \E a \in Ready : ShortestUuid(a)

SpecUuid == InitUuid /\ [][NextUuid]_vars

(* ------------------------------- claims -------------------------------- *)
Count(s, x) == Cardinality({i \in DOMAIN s : s[i] = x})
IsDispatch == ret.op \in {"on_notification", "on_indication"}
\* the callback list the last dispatch went through
Dispatched ==
    IF ret.op = "on_notification" THEN attrs[ret.obj].notification_callbacks
    ELSE attrs[ret.obj].indication_callbacks

\* C1: a dispatch invokes the registered callbacks once per registration, in
\* registration order, each with the payload of the dispatch.
C1_DispatchInvokesEveryRegistration ==
    IsDispatch =>
        invoked = [i \in 1..Len(Dispatched) |-> <<Dispatched[i], inp.data>>]

\* C2: in one dispatch, a callback that raises does not keep a callback
\* registered after it from being invoked with the payload.
C2_FailingCallbackDoesNotSilenceLater ==
    IsDispatch =>
        \A i \in 1..Len(Dispatched), j \in 1..Len(Dispatched) :
            (i < j /\ Raises(Dispatched[i])) =>
                \E k \in 1..Len(invoked) : invoked[k] = <<Dispatched[j], inp.data>>

\* C3: after a successful construction of a Characteristic with value handle
\* V, or of a Descriptor with handle H, register_handle(V, characteristic),
\* respectively register_handle(H, descriptor), has been called exactly once
\* on the device, and by that construction.
C3_ConstructionRegistersOnce ==
    /\ (ret.op = "BLEDescriptor" /\ ret.outcome = "ok") =>
           /\ Count(regLog, RegisterCall(inp.handle, ret.obj)) = 1
           /\ calls = <<RegisterCall(inp.handle, ret.obj)>>
    /\ (ret.op = "BLECharacteristic" /\ ret.outcome = "ok") =>
           /\ Count(regLog, RegisterCall(inp.value_handle, ret.obj)) = 1
           /\ Count(calls, RegisterCall(inp.value_handle, ret.obj)) = 1
\* a second descriptor was constructed and registered
C3_Witness ==
    /\ ret.op = "BLEDescriptor"
    /\ ret.outcome = "ok"
    /\ ret.obj = 2
    /\ regLog[Len(regLog)] = RegisterCall(attrs[2].value_handle, 2)

\* the (handle, uuid) pairs the requester returned, and those with uuid u
Pairs == [i \in 1..Len(inp.items) |->
             <<inp.items[i].handle, UuidParse(inp.items[i].uuid).uuid>>]
PairsOf(u) == SelectSeq(Pairs, LAMBDA p : p[2] = u)
\* discovery went through: every pair was well-formed and registered, the
\* requester ended normally
CleanDiscovery ==
    /\ ret.op = "discover_descriptors"
    /\ inp.value_handle + 1 <= inp.end_handle
    /\ inp.tail = "end"
    /\ \A i \in 1..Len(inp.items) :
           inp.items[i].reg = "ok" /\ UuidParse(inp.items[i].uuid).ok
AsPairs(ids) == [k \in 1..Len(ids) |-> <<attrs[ids[k]].value_handle, attrs[ids[k]].uuid>>]

\* C4: when discovery returns an ordered sequence of pairs, get_all(u) on the
\* resulting table is, for every u, the descriptors made from the pairs with
\* uuid u, in discovery order.
C4_TableIsBucketMapping ==
    (CleanDiscovery /\ Len(inp.items) > 0) =>
        /\ ret.outcome = "ok"
        /\ \A u \in Uuids :
               /\ ret.table.kind = "dict"
               /\ AsPairs(get_all(ret.table, u).value) = PairsOf(u)

\* C5: constructing a Characteristic with V + 1 > E makes no
\* discover_descriptors call, succeeds, and leaves an empty accessor.
C5_EmptyRangeConstruction ==
    (ret.op = "BLECharacteristic" /\ inp.value_handle + 1 > inp.end_handle) =>
        /\ \A i \in 1..Len(calls) : calls[i].fn # "discover_descriptors"
        /\ ret.outcome = "ok"
        /\ ret.table.kind = "dict"
        /\ \A u \in Uuids : get_all(ret.table, u) = [outcome |-> "ok", value |-> <<>>]

\* "not found" reported after n successful pairs: by the requester after it
\* yielded them, or for the pair that follows them
NotFoundAfter(n) ==
    /\ ret.op = "discover_descriptors"
    /\ inp.value_handle + 1 <= inp.end_handle
    /\ n <= Len(inp.items)
    /\ \A i \in 1..n : inp.items[i].reg = "ok" /\ UuidParse(inp.items[i].uuid).ok
    /\ \/ Len(inp.items) = n /\ inp.tail = "NotFound"
       \/ Len(inp.items) = n + 1 /\ inp.items[n + 1].reg = "NotFound" /\ inp.tail = "end"
\* the descriptors a table holds
Held(table) == UNION {{get_all(table, u).value[k] : k \in 1..Len(get_all(table, u).value)} :
                         u \in Uuids}

\* C6: "not found" after n >= 0 successful pairs does not fail the discovery,
\* and the descriptor set holds exactly the n descriptors found before it.
C6_NotFoundEndsDiscovery ==
    \A n \in 0..MaxAttrs :
        NotFoundAfter(n) =>
            /\ ret.outcome = "ok"
            /\ ret.table.kind = "dict"
            /\ {<<attrs[d].value_handle, attrs[d].uuid>> : d \in Held(ret.table)}
                   = {Pairs[i] : i \in 1..n}

\* a device error other than "not found" is the first thing to go wrong in
\* a discovery without any "not found": raised for pair i, or by the
\* requester after all pairs
DeviceErrorFirst ==
    /\ ret.op = "discover_descriptors"
    /\ inp.value_handle + 1 <= inp.end_handle
    /\ inp.tail # "NotFound"
    /\ \A i \in 1..Len(inp.items) : inp.items[i].reg # "NotFound"
    /\ \/ \E i \in 1..Len(inp.items) :
              /\ inp.items[i].reg = "DeviceError"
              /\ \A j \in 1..(i - 1) :
                     inp.items[j].reg = "ok" /\ UuidParse(inp.items[j].uuid).ok
       \/ /\ inp.tail = "DeviceError"
          /\ \A j \in 1..Len(inp.items) :
                 inp.items[j].reg = "ok" /\ UuidParse(inp.items[j].uuid).ok

\* C7: a transport error other than "not found" during descriptor discovery
\* reaches the caller, whether the discover_descriptors call raised it or the
\* processing of one returned pair; it is never swallowed.
C7_OtherErrorsPropagate ==
    DeviceErrorFirst => ret.outcome = "DeviceError"

\* C8: read() and write(data, response) make exactly one transport call, on
\* value_handle with the arguments given, also when the call fails; they hand
\* its result or error back unchanged and leave the attributes as they were.
C8_ReadWriteArePureDelegations ==
    [][ret'.op \in {"read", "write"} =>
          /\ attrs' = attrs
          /\ regLog' = regLog
          /\ invoked' = <<>>
          /\ ret'.outcome = inp'.result.outcome
          /\ ret'.bytes = inp'.result.bytes
          /\ ret'.op = "read" =>
                 calls' = <<ReadCall(attrs[ret'.obj].value_handle)>>
          /\ ret'.op = "write" =>
                 calls' = <<WriteCall(attrs[ret'.obj].value_handle, inp'.data,
                                      inp'.response)>>]_vars

\* a write without response of b'\xAB' that the device failed
C8_Witness ==
    /\ ret.op = "write"
    /\ ret.outcome = "DeviceError"
    /\ inp.data = <<171>>
    /\ inp.response = FALSE
    /\ calls = <<WriteCall(attrs[ret.obj].value_handle, <<171>>, FALSE)>>


HasShortForm(u) == \A i \in (1..4) \cup (9..32) : u[i] = BaseUuid[i]
HexText(digits) == [i \in 1..Len(digits) |-> HexChars[digits[i] + 1]]

\* C10: shortest_uuid of 0000XXXX-0000-1000-8000-00805F9B34FB is the four hex
\* digits XXXX; of a UUID that differs from the base UUID outside XXXX it is
\* the full text: the 32 hex digits in groups of 8-4-4-4-12.
C10_ShortestUuidExact ==
    ret.op = "shortest_uuid" =>
        LET u == attrs[ret.obj].uuid
        IN  IF HasShortForm(u)
            THEN ret.text = HexText(<<u[5], u[6], u[7], u[8]>>)
            ELSE /\ Len(ret.text) = 36
                 /\ \A i \in {9, 14, 19, 24} : ret.text[i] = "-"
                 /\ SelectSeq(ret.text, LAMBDA c : c # "-") = HexText(u)

\* shortest_uuid of 00009f0f-0000-1000-8000-00805f9b34fb returned "9f0f"
C10_Witness ==
    /\ ret.op = "shortest_uuid"
    /\ attrs[ret.obj].uuid = WithSegment(9, 15, 0, 15)
    /\ ret.text = <<"9", "f", "0", "f">>

\* C11: a dispatch returns normally to its caller whatever the registered
\* callbacks do; a callback's failure is never raised to it.
C11_DispatchReturnsNormally ==
    IsDispatch => ret.outcome = "ok"

\* the device's registry: the (handle, object) pairs whose register_handle
\* call returned
Registered(h, o) ==
    /\ \E i \in 1..Len(regLog) : regLog[i] = RegisterCall(h, o)
    /\ attrs[o].ready
\* the objects the last operation constructed
MadeByLast == {calls[i].obj : i \in {j \in 1..Len(calls) : calls[j].fn = "register_handle"}}

\* C12: when discovery fails, the device's registry afterwards routes no
\* handle to a descriptor that was constructed during the aborted discovery
\* (nor to the characteristic itself).
C12_NothingRegisteredAfterFailure ==
    (ret.op \in {"discover_descriptors", "BLECharacteristic"} /\ ret.outcome # "ok") =>
        \A o \in MadeByLast : ~Registered(attrs[o].value_handle, o)

\* C13: constructing a Characteristic with V + 1 <= E calls the requester's
\* discover_descriptors exactly once, with the range (V + 1, E); no other
\* operation calls it.
C13_DiscoveryRunsOnce ==
    /\ (ret.op = "BLECharacteristic" /\ inp.value_handle + 1 <= inp.end_handle) =>
           /\ Count(calls, DiscoverCall(inp.value_handle + 1, inp.end_handle)) = 1
           /\ \A i \in 1..Len(calls) :
                  calls[i].fn = "discover_descriptors" =>
                      calls[i] = DiscoverCall(inp.value_handle + 1, inp.end_handle)
    /\ ret.op \notin {"BLECharacteristic", "discover_descriptors"} =>
           \A i \in 1..Len(calls) : calls[i].fn # "discover_descriptors"

\* "not found" is raised for pair i of a discovery, the pairs before it
\* having registered
NotFoundAt(i) ==
    /\ ret.op = "discover_descriptors"
    /\ inp.value_handle + 1 <= inp.end_handle
    /\ i <= Len(inp.items)
    /\ inp.items[i].reg = "NotFound"
    /\ \A j \in 1..(i - 1) : inp.items[j].reg = "ok" /\ UuidParse(inp.items[j].uuid).ok

\* C14: a "not found" for one pair ends the discovery there: no descriptor is
\* constructed or registered for a pair that follows it.
C14_NotFoundStopsDiscovery ==
    \A i \in 1..MaxAttrs :
        NotFoundAt(i) =>
            \A j \in (i + 1)..Len(inp.items) :
                \A k \in 1..Len(calls) :
                    ~(calls[k].fn = "register_handle" /\ calls[k].handle = inp.items[j].handle)

\* C15: a discovery over a non-empty range that returns no pair succeeds and
\* gives an empty accessor.
C15_EmptyResultIsNoError ==
    (/\ ret.op = "discover_descriptors"
     /\ inp.value_handle + 1 <= inp.end_handle
     /\ inp.items = <<>>
     /\ inp.tail = "end") =>
        /\ ret.outcome = "ok"
        /\ ret.table.kind = "dict"
        /\ \A u \in Uuids : get_all(ret.table, u) = [outcome |-> "ok", value |-> <<>>]

\* invoked is a run through the first callbacks of cbs, each with data
RunsThrough(inv, cbs, data) ==
    /\ Len(inv) <= Len(cbs)
    /\ \A k \in 1..Len(inv) : inv[k] = <<cbs[k], data>>
\* a step changes, of all callback sequences, at most sequence `kind` of a
OnlyChanges(a, kind) ==
    /\ Len(attrs') = Len(attrs)
    /\ \A b \in 1..Len(attrs) :
           /\ attrs'[b].value_handle = attrs[b].value_handle
           /\ attrs'[b].uuid = attrs[b].uuid
           /\ (b # a \/ kind # "notification") =>
                  attrs'[b].notification_callbacks = attrs[b].notification_callbacks
           /\ (b # a \/ kind # "indication") =>
                  attrs'[b].indication_callbacks = attrs[b].indication_callbacks

\* C17: _on_notification on attribute A invokes only what was registered with
\* A.notify, in A's order, never A's indication callbacks nor those of another
\* attribute; likewise _on_indication; notify on A changes A's notification
\* sequence only, indicate on A A's indication sequence only.
C17_DispatchConfined ==
    [][/\ ret'.op = "on_notification" =>
              /\ RunsThrough(invoked', attrs[ret'.obj].notification_callbacks, inp'.data)
              /\ OnlyChanges(ret'.obj, "none")
       /\ ret'.op = "on_indication" =>
              /\ RunsThrough(invoked', attrs[ret'.obj].indication_callbacks, inp'.data)
              /\ OnlyChanges(ret'.obj, "none")
       /\ ret'.op = "notify" =>
              /\ OnlyChanges(ret'.obj, "notification")
              /\ invoked' = <<>>
       /\ ret'.op = "indicate" =>
              /\ OnlyChanges(ret'.obj, "indication")
              /\ invoked' = <<>>]_vars

\* a notification went to f alone on an attribute that has g for indications
C17_Witness ==
    /\ ret.op = "on_notification"
    /\ invoked = << <<"f", <<1, 2>> >> >>
    /\ attrs[ret.obj].notification_callbacks = <<"f">>
    /\ attrs[ret.obj].indication_callbacks = <<"g">>

(* --------- construction interleaved with the delivery of events -------- *)
\* BLEAttribute.__init__ up to and including the register_handle call of
\* line 52, which returns; the callback lists do not exist yet
init_until_registered(id, handle, uuid) ==
    [obj |-> [BLEAttribute_init(id, handle, uuid, "ok").obj
                 EXCEPT !.has_notification_callbacks = FALSE, !.ready = FALSE],
     calls |-> <<RegisterCall(handle, id)>>]

\* line 55: self._notification_callbacks = list()
init_notification_callbacks(self) ==
    [self EXCEPT !.notification_callbacks = <<>>, !.has_notification_callbacks = TRUE]

\* line 56: self._indication_callbacks = list(), the constructor's last line
init_indication_callbacks(self) ==
    [self EXCEPT !.indication_callbacks = <<>>, !.ready = TRUE]

\* the object the device routes events for handle h to: the one registered
\* last under h (0 if none)
Routed(h) ==
    IF \E i \in 1..Len(regLog) : regLog[i].handle = h
    THEN regLog[CHOOSE i \in 1..Len(regLog) :
                   /\ regLog[i].handle = h
                   /\ \A j \in (i + 1)..Len(regLog) : regLog[j].handle # h].obj
    ELSE 0

BeginInit(handle, uuid) ==
    /\ Len(attrs) < MaxAttrs
    /\ LET id == Len(attrs) + 1
           r == init_until_registered(id, handle, uuid)
       IN  /\ attrs' = Append(attrs, r.obj)
           /\ regLog' = regLog \o r.calls
           /\ calls' = r.calls
           /\ ret' = Ret("BLEDescriptor", id, "running")
    /\ invoked' = <<>>
    /\ inp' = [handle |-> handle, uuid |-> uuid]

\* the constructor of object a goes on with line 55; another context may run
\* before line 56
InitNotificationCallbacks(a) ==
    /\ ~attrs[a].has_notification_callbacks
    /\ attrs' = [attrs EXCEPT ![a] = init_notification_callbacks(attrs[a])]
    /\ calls' = <<>>
    /\ invoked' = <<>>
    /\ ret' = Ret("BLEDescriptor", a, "running")
    /\ inp' = [handle |-> attrs[a].value_handle, uuid |-> attrs[a].uuid]
    /\ UNCHANGED regLog

FinishInit(a) ==
    /\ attrs[a].has_notification_callbacks
    /\ ~attrs[a].ready
    /\ attrs' = [attrs EXCEPT ![a] = init_indication_callbacks(attrs[a])]
    /\ calls' = <<>>
    /\ invoked' = <<>>
    /\ ret' = Ret("BLEDescriptor", a, "ok")
    /\ inp' = [handle |-> attrs[a].value_handle, uuid |-> attrs[a].uuid]
    /\ UNCHANGED regLog

\* the transport layer, on its own execution context, receives a notification
\* or an indication for handle h: the device looks the attribute up and calls
\* its dispatch
Deliver(h, kind, data) ==
    /\ Routed(h) # 0
    /\ LET a == Routed(h)
           r == IF kind = "notification" THEN on_notification(attrs[a], data)
                ELSE on_indication(attrs[a], data)
       IN  /\ invoked' = r.invoked
           /\ ret' = Ret(IF kind = "notification" THEN "on_notification"
                         ELSE "on_indication", a, r.outcome)
    /\ calls' = <<>>
    /\ inp' = [data |-> data]
    /\ UNCHANGED <<attrs, regLog>>

NextConcurrent ==
    \/ \E h \in Handles, u \in Uuids : BeginInit(h, u)
    \/ \E a \in 1..Len(attrs) : InitNotificationCallbacks(a)
    \/ \E a \in 1..Len(attrs) : FinishInit(a)
    \/ \E h \in Handles, kind \in {"notification", "indication"}, data \in Payloads :
          Deliver(h, kind, data)
    \/ \E a \in {b \in 1..Len(attrs) : attrs[b].has_notification_callbacks},
          f \in Callbacks : Notify(a, f)
    \/ \E a \in Ready, f \in Callbacks : Indicate(a, f)

SpecConcurrent == Init /\ [][NextConcurrent]_vars

\* C18: every attribute the device's registry leads to has both callback
\* sequences, so that no dispatch fails for want of one.
C18_RegisteredHasCallbackLists ==
    /\ \A i \in 1..Len(regLog) : attrs[regLog[i].obj].ready
    /\ IsDispatch => ret.outcome # "AttributeError"

(* ------------- dispatch with callbacks that register callbacks --------- *)
\* callbacks that, when called, register a callback on the attribute that is
\* dispatching, in the sequence that is being dispatched: add_g registers g,
\* add_self registers itself; f and g only return
ReentrantCallbacks == {"f", "add_g", "add_self"}
Registers(cb) == cb \in {"add_g", "add_self"}
CallbackEffect(cb, self, kind) ==
    LET function == IF cb = "add_g" THEN "g" ELSE cb
    IN  IF ~Registers(cb) THEN self
        ELSE IF kind = "notification" THEN notify(self, function)
        ELSE indicate(self, function)

\* One round of `for callback in self._..._callbacks: callback(data)` after
\* `done` callbacks have been called: the list iterator looks at the list as
\* it is now, so it goes on as long as the list has an element at its index.
for_callback_step(self, kind, done, data) ==
    LET callbacks == IF kind = "notification" THEN self.notification_callbacks
                     ELSE self.indication_callbacks
    IN  IF done >= Len(callbacks)
        THEN [self |-> self, invoked |-> <<>>, outcome |-> "ok"]
        ELSE LET cb == callbacks[done + 1]
             IN  IF Raises(cb)
                 THEN [self |-> self, invoked |-> << <<cb, data>> >>,
                       outcome |-> "CallbackError"]
                 ELSE [self |-> CallbackEffect(cb, self, kind),
                       invoked |-> << <<cb, data>> >>, outcome |-> "running"]

DispatchKind == IF ret.op = "on_notification" THEN "notification" ELSE "indication"
Running == IsDispatch /\ ret.outcome = "running"

BeginDispatch(a, kind, data) ==
    /\ ~Running
    /\ ret' = Ret(IF kind = "notification" THEN "on_notification" ELSE "on_indication",
                  a, "running")
    /\ inp' = [data |-> data,
               began |-> IF kind = "notification" THEN attrs[a].notification_callbacks
                         ELSE attrs[a].indication_callbacks]
    /\ invoked' = <<>>
    /\ calls' = <<>>
    /\ UNCHANGED <<attrs, regLog>>

DispatchStep ==
    /\ Running
    /\ LET a == ret.obj
           r == for_callback_step(attrs[a], DispatchKind, Len(invoked), inp.data)
       IN  /\ (r.self # attrs[a]) => TotalRegs < MaxRegs
           /\ attrs' = [attrs EXCEPT ![a] = r.self]
           /\ invoked' = invoked \o r.invoked
           /\ ret' = [ret EXCEPT !.outcome = r.outcome]
    /\ UNCHANGED <<regLog, calls, inp>>

NextReentrant ==
    \/ \E a \in Ready, f \in ReentrantCallbacks : ~Running /\ Notify(a, f)
    \/ \E a \in Ready, f \in ReentrantCallbacks : ~Running /\ Indicate(a, f)
    \/ \E a \in Ready, kind \in {"notification", "indication"}, data \in Payloads :
          BeginDispatch(a, kind, data)
    \/ DispatchStep

SpecReentrant == InitAttrs /\ [][NextReentrant]_vars

\* C19: a dispatch invokes exactly the callbacks that were registered when it
\* began, also when a callback registers callbacks on the same attribute
\* meanwhile: while it runs it is within them, when it returns it has called
\* each of them once.
C19_DispatchOverSnapshot ==
    (IsDispatch /\ ret.outcome \in {"running", "ok"}) =>
        /\ RunsThrough(invoked, inp.began, inp.data)
        /\ ret.outcome = "ok" => Len(invoked) = Len(inp.began)
====
